---------------------------- MODULE Spec2Model ----------------------------
(***************************************************************************)
(* Model of the exchange bookkeeping bot (src/bot.py, src/utils.py,        *)
(* src/database.py).                                                       *)
(*                                                                         *)
(* Units.  The code computes with floats; the model computes with exact    *)
(* integers in fixed units:                                                *)
(*   - a rate (GHS per USD) is a count of 0.5 GHS/USD, 0.5 being the step  *)
(*     of floor_step;                                                      *)
(*   - a GHS amount is a count of 0.5 GHS, so that usd * rate is exact;    *)
(*   - a USD amount typed by a user is a whole number of dollars;          *)
(*   - usd_cost_per_ghs (1/rate) and every USD cost or profit derived from *)
(*     it is a count of 1/CostScale dollars, CostScale being a common      *)
(*     multiple of every rate a lot can be bought at.                      *)
(*                                                                         *)
(* Every telegram handler runs to completion before the next update is     *)
(* dispatched (Application.builder() leaves concurrent_updates off) and    *)
(* the body of finalize_transaction between the SELECT SUM of line 481 and *)
(* the commit of line 529 contains no await on its success path, so a      *)
(* handler is one atomic action.  Concurrency is the interleaving of the   *)
(* handlers of several users, each with its own conversation state and     *)
(* user_data.                                                              *)
(***************************************************************************)
EXTENDS Integers, Sequences, FiniteSets, TLC

\* ------------------------------------------------------------------ bounds
MaxLots == 2
MaxTx == 2
MaxRates == 2
MaxMarket == 64

\* ------------------------------------------------------- program constants
OWNER_ID == 1
\* The threshold of the low-balance alert, 1000 GHS (bot.py:563), in halves.
LOW_BALANCE == 2000
Users == {1, 2}

\* Conversation states (bot.py:40-41, 325, 332) and ConversationHandler.END
END == "END"
USD_AMOUNT == "USD_AMOUNT"
CONFIRM_SUGGESTION == "CONFIRM_SUGGESTION"
ACTUAL_AMOUNT == "ACTUAL_AMOUNT"
SET_MARKET_RATE == "SET_MARKET_RATE"
BULK_USD == "BULK_USD"
BULK_RATE == "BULK_RATE"

\* Columns of customer_transactions that init_db creates (database.py:44-55)
InitDbTxColumns ==
    {"id", "usd_received", "suggested_ghs", "actual_ghs_paid",
     "market_rate_at_time", "owner_rate_at_time",
     "intermediary_rate_at_time", "date", "recorded_by", "notes", "status"}

\* Columns named by the INSERT of finalize_transaction (bot.py:515-519)
FinalizeInsertColumns ==
    {"usd_received", "suggested_ghs", "actual_ghs_paid",
     "market_rate_at_time", "owner_rate_at_time",
     "intermediary_rate_at_time", "date", "recorded_by", "owner_profit_usd"}

\* ------------------------------------------------------------ input values
\* Text a user can type where a number is expected: text that float()
\* parses to value, text that float() rejects with ValueError, and the word
\* "current".
Number(n) == [kind |-> "number", value |-> n]
NotANumber == [kind |-> "text", value |-> 0]
Current == [kind |-> "current", value |-> 0]
Numbers(S) == {Number(n) : n \in S}
\* Market rates typed in /setmarket or returned by the rate API (halves).
MarketInputs == {-5, 0, 5}
\* USD amounts typed in the bulk conversation and in the pay conversation.
BulkUsdInputs == {-1, 2}
PayUsdInputs == {1, 2}
\* Rates typed in the bulk conversation (halves); "current" is a further text.
BulkRateInputs == {-2, 2}
\* GHS amounts typed as the actual amount paid (halves).
ActualInputs == {3, 9}

\* Every non-zero rate a lot can be bought at: typed, or the current market.
LotRates == (BulkRateInputs \cup MarketInputs) \ {0}

Abs(n) == IF n < 0 THEN -n ELSE n

RECURSIVE Product(_)
Product(S) ==
    IF S = {} THEN 1
    ELSE LET x == CHOOSE y \in S : TRUE IN Abs(x) * Product(S \ {x})

\* Unit of usd_cost_per_ghs and of USD costs and profits: 1/CostScale dollar.
CostScale == Product({Abs(r) : r \in LotRates})

VARIABLES
    onVolume,              \* database.DB_NAME is /data/exchange_bot.db
    tx_columns,            \* columns of table customer_transactions
    users,                 \* table users: telegram_id -> role
    pending_users,         \* table pending_users: set of telegram_id
    market_rates,          \* table market_rates, in insertion order
    bulk_transfers,        \* table bulk_transfers, by id
    inventory_batches,     \* table inventory_batches, by id
    customer_transactions, \* table customer_transactions, by id
    tx_batch_usage,        \* table tx_batch_usage, in insertion order
    seqs,                  \* AUTOINCREMENT counters (sqlite_sequence)
    conv,                  \* state of each ConversationHandler per user
    user_data,             \* context.user_data per user
    last                   \* what the last call did and replied

dbvars == <<market_rates, bulk_transfers, inventory_batches,
            customer_transactions, tx_batch_usage, seqs>>
envvars == <<onVolume, tx_columns>>
uservars == <<users, pending_users>>
chatvars == <<conv, user_data>>
vars == <<onVolume, tx_columns, users, pending_users, market_rates,
          bulk_transfers, inventory_batches, customer_transactions,
          tx_batch_usage, seqs, conv, user_data, last>>

\* ----------------------------------------------------------------- helpers
\* SELECT SUM(remaining_ghs) FROM inventory_batches ... or 0.0
RECURSIVE TotalRemaining(_)
TotalRemaining(batches) ==
    IF batches = <<>> THEN 0
    ELSE Head(batches).remaining_ghs + TotalRemaining(Tail(batches))

NoUsage == <<>>

\* The reply/result record of a call.
Result(op, user, outcome) ==
    [op |-> op, user |-> user, outcome |-> outcome,
     ghs_needed |-> 0, usage |-> NoUsage, total_cost_usd |-> 0,
     usd |-> 0, rate |-> 0, actual |-> 0, owner_share |-> 0,
     total_ghs |-> 0, remaining |-> 0, low_balance |-> FALSE]

\* --------------------------------------------------------------- utils.py
\* floor_step flooring to a multiple of twice the step.
floor_step_coarse(value, step) == (value \div (2 * step)) * (2 * step)

\* floor_step(value, step): math.floor(value / step) * step.  value and
\* step are counts of the same unit; \div rounds towards minus infinity
\* as math.floor does.
floor_step(value, step) == (value \div step) * step

\* owner_rate rounding to the nearest multiple of the step instead of
\* flooring.
owner_rate_nearest(market) ==
    LET base == market * 16
    IN floor_step(base + 10, 20) \div 20

\* owner_rate(market) and intermediary_rate(market) (utils.py:10-24).
\* market and the result are counts of 0.5; base and floored are counts of
\* 0.5/20, the unit in which market * 0.8 = market * 16/20 and
\* market * 0.75 = market * 15/20 are exact and the step 0.5 is 20.
owner_rate(market) ==
    LET base == market * 16
        floored == floor_step(base, 20)
    IN (IF base - floored > 20 THEN floored - 20 ELSE floored) \div 20

\* intermediary_rate rounding up to a multiple of the step.
intermediary_rate_ceiling(market) ==
    LET base == market * 15
    IN (base + 19) \div 20

intermediary_rate(market) ==
    LET base == market * 15
        floored == floor_step(base, 20)
    IN (IF base - floored > 20 THEN floored - 20 ELSE floored) \div 20

\* The FIFO loop of deduct_from_inventory (utils.py:37-44) over the rows
\* selected at line 32, applying each UPDATE of line 44 to the table db.
RECURSIVE DeductLoop(_, _, _, _, _)
DeductLoop(batches, remaining, usage, total_cost_usd, db) ==
    IF batches = <<>> \/ remaining <= 0
    THEN [db |-> db, usage |-> usage, total_cost_usd |-> total_cost_usd,
          remaining |-> remaining]
    ELSE LET b == Head(batches)
             avail == b.remaining_ghs
             take == IF avail < remaining THEN avail ELSE remaining
             db2 == [i \in 1..Len(db) |->
                       IF db[i].id = b.id
                       THEN [db[i] EXCEPT !.remaining_ghs = @ - take]
                       ELSE db[i]]
         IN DeductLoop(Tail(batches), remaining - take,
                       Append(usage, [batch_id |-> b.id, ghs_used |-> take,
                                      cost |-> b.usd_cost_per_ghs]),
                       total_cost_usd + take * b.usd_cost_per_ghs, db2)

\* deduct_from_inventory with ORDER BY id DESC: the newest lot first.
RECURSIVE Reverse(_)
Reverse(q) == IF q = <<>> THEN <<>> ELSE Append(Reverse(Tail(q)), Head(q))

deduct_newest_first(db, ghs_needed) ==
    LET batches == Reverse(SelectSeq(db, LAMBDA b : b.remaining_ghs > 0))
        r == DeductLoop(batches, ghs_needed, NoUsage, 0, db)
    IN [db |-> r.db, usage |-> r.usage, total_cost_usd |-> r.total_cost_usd,
        raised |-> r.remaining > 0]

\* deduct_from_inventory(ghs_needed) on the table db: the committed table,
\* the usage list, the total cost and whether line 48 raises.
deduct_from_inventory(db, ghs_needed) ==
    LET batches == SelectSeq(db, LAMBDA b : b.remaining_ghs > 0)
        r == DeductLoop(batches, ghs_needed, NoUsage, 0, db)
    IN [db |-> r.db, usage |-> r.usage, total_cost_usd |-> r.total_cost_usd,
        raised |-> r.remaining > 0]


\* ----------------------------------------------- bulk intake (bot.py:356-366)
\* 1/rate of line 364, in units of 1/CostScale; exact because every rate of
\* LotRates divides CostScale.  rate = 0 raises ZeroDivisionError instead.
UnitCost(rate) ==
    IF rate < 0 THEN -(CostScale \div (-rate)) ELSE CostScale \div rate

\* bulk_rate committing the bulk transfer before it evaluates 1/rate: with
\* rate = 0 the transfer is stored and its lot is not.
RecordBulkCommitFirst(usd, rate) ==
    LET ghs == usd * rate
        bulk_id == seqs.bulk + 1
        batch_id == seqs.batch + 1
        transfers == Append(bulk_transfers,
                            [id |-> bulk_id, usd_amount |-> usd,
                             market_rate |-> rate, ghs_received |-> ghs])
    IN IF rate = 0
       THEN [raised |-> TRUE, bulk_transfers |-> transfers,
             inventory_batches |-> inventory_batches,
             seqs |-> [seqs EXCEPT !.bulk = bulk_id]]
       ELSE [raised |-> FALSE,
             bulk_transfers |-> transfers,
             inventory_batches |->
                 Append(inventory_batches,
                        [id |-> batch_id, bulk_id |-> bulk_id,
                         remaining_ghs |-> ghs,
                         usd_cost_per_ghs |-> UnitCost(rate)]),
             seqs |-> [seqs EXCEPT !.bulk = bulk_id, !.batch = batch_id]]

\* The two INSERTs and the commit of bulk_rate (lines 356-366) for the
\* amount usd and the rate rate: the tables and counters after the commit.
\* Evaluating 1/rate at line 364 raises for rate = 0 before the commit of
\* line 365; the connection is dropped and nothing of the call is stored.
RecordBulk(usd, rate) ==
    LET ghs == usd * rate
        bulk_id == seqs.bulk + 1
        batch_id == seqs.batch + 1
    IN IF rate = 0
       THEN [raised |-> TRUE, bulk_transfers |-> bulk_transfers,
             inventory_batches |-> inventory_batches, seqs |-> seqs]
       ELSE [raised |-> FALSE,
             bulk_transfers |->
                 Append(bulk_transfers,
                        [id |-> bulk_id, usd_amount |-> usd,
                         market_rate |-> rate, ghs_received |-> ghs]),
             inventory_batches |->
                 Append(inventory_batches,
                        [id |-> batch_id, bulk_id |-> bulk_id,
                         remaining_ghs |-> ghs,
                         usd_cost_per_ghs |-> UnitCost(rate)]),
             seqs |-> [seqs EXCEPT !.bulk = bulk_id, !.batch = batch_id]]

\* ------------------------------------------------------------------ Init
NoData == [k \in {} |-> 0]

InitTables ==
    /\ market_rates = <<>>
    /\ bulk_transfers = <<>>
    /\ inventory_batches = <<>>
    /\ customer_transactions = <<>>
    /\ tx_batch_usage = <<>>
    /\ seqs = [bulk |-> 0, batch |-> 0, tx |-> 0]
    /\ pending_users = {}
    /\ users = [u \in {OWNER_ID} |-> "owner"]
    /\ conv = [u \in Users |-> [setmarket |-> END, bulk |-> END, pay |-> END]]
    /\ user_data = [u \in Users |-> NoData]
    /\ last = Result("init", 0, "ok")

\* ---------------------------------------------- the ledger taken on its own
\* The inventory ledger exercised directly: lots are added by the INSERTs
\* of bulk_rate and deduct_from_inventory is called with any amount.
InitLedger ==
    /\ InitTables
    /\ onVolume = FALSE
    /\ tx_columns = InitDbTxColumns

DeductInputs == {-1, 0, 1, 2, 3, 5, 8}

LedgerAddLot(usd, rate) ==
    LET r == RecordBulk(usd, rate)
    IN /\ seqs.batch < MaxLots
       /\ bulk_transfers' = r.bulk_transfers
       /\ inventory_batches' = r.inventory_batches
       /\ seqs' = r.seqs
       /\ last' = Result("addLot", 0,
                         IF r.raised THEN "ZeroDivisionError" ELSE "ok")
       /\ UNCHANGED <<envvars, uservars, chatvars, market_rates,
                      customer_transactions, tx_batch_usage>>

LedgerDeduct(ghs_needed) ==
    LET r == deduct_from_inventory(inventory_batches, ghs_needed)
    IN /\ inventory_batches' = r.db
       /\ last' = [Result("deduct", 0,
                          IF r.raised THEN "InsufficientInventory" ELSE "ok")
                     EXCEPT !.ghs_needed = ghs_needed,
                            !.usage = r.usage,
                            !.total_cost_usd = r.total_cost_usd]
       /\ UNCHANGED <<envvars, uservars, chatvars, market_rates,
                      bulk_transfers, customer_transactions, tx_batch_usage,
                      seqs>>

NextLedger ==
    \/ \E usd \in BulkUsdInputs, rate \in LotRates \cup {0} :
           LedgerAddLot(usd, rate)
    \/ \E ghs_needed \in DeductInputs : LedgerDeduct(ghs_needed)

SpecLedger == InitLedger /\ [][NextLedger]_vars


\* ------------------------------------------------------- the bot (bot.py)
\* database.py:5-13 picks the path of the database from the environment;
\* init_db creates customer_transactions only IF NOT EXISTS (line 44), so a
\* database file that already holds the table keeps the columns it has:
\* the fresh table has the columns of lines 45-55, and only an older file
\* can have the owner_profit_usd column that bot.py:518 and bot.py:656 use.
\* post_init (bot.py:964-971) makes OWNER_ID an owner.
Init ==
    /\ InitTables
    /\ onVolume \in BOOLEAN
    /\ tx_columns \in {InitDbTxColumns,
                       InitDbTxColumns \cup {"owner_profit_usd"}}

\* get_user_role (bot.py:47-54)
get_user_role(u) == IF u \in DOMAIN users THEN users[u] ELSE "none"

\* user_data with the keys ks removed / with key k set to v.  A handler
\* writes every key before the conversation state that reads it, so the
\* keys of a conversation that has ended are never read again and the
\* model does not keep them.
Without(ud, ks) == [k \in (DOMAIN ud) \ ks |-> ud[k]]
With(ud, k, v) == [x \in (DOMAIN ud) \cup {k} |-> IF x = k THEN v ELSE ud[x]]
PayKeys == {"usd_received", "market", "owner_rate", "intermediary_rate",
            "suggested", "actual_ghs"}

\* Which conversation a text message of user u reaches: the handlers are
\* tried in the order main() adds them (bot.py:997-1039) and the first
\* conversation with a text handler in its current state takes the update.
TextHandler(u) ==
    IF conv[u].setmarket = SET_MARKET_RATE THEN "setmarket"
    ELSE IF conv[u].bulk \in {BULK_USD, BULK_RATE} THEN "bulk"
    ELSE IF conv[u].pay \in {USD_AMOUNT, ACTUAL_AMOUNT} THEN "pay"
    ELSE "none"

\* SELECT rate FROM market_rates ORDER BY timestamp DESC LIMIT 1
HasRate == market_rates # <<>>
LatestRate == market_rates[Len(market_rates)].rate

\* ---- /start and approval (bot.py:154-244)
Start(u) ==
    /\ IF get_user_role(u) # "none"
       THEN /\ UNCHANGED pending_users
            /\ last' = Result("start", u, "menu")
       ELSE IF u \in pending_users
       THEN /\ UNCHANGED pending_users
            /\ last' = Result("start", u, "already pending")
       ELSE /\ pending_users' = pending_users \cup {u}
            /\ last' = Result("start", u, "requested")
    /\ UNCHANGED <<envvars, users, dbvars, chatvars>>

\* approval_callback without the check of the sender (bot.py:208-210).
approval_callback_any_sender(sender, action, target) ==
    /\ target \in pending_users
    /\ IF action = "reject"
       THEN /\ pending_users' = pending_users \ {target}
            /\ UNCHANGED users
            /\ last' = Result("approval_callback", sender, "rejected")
       ELSE /\ users' = [x \in (DOMAIN users) \cup {target} |->
                           IF x = target
                           THEN (IF action = "approve_owner" THEN "owner"
                                 ELSE "intermediary")
                           ELSE users[x]]
            /\ pending_users' = pending_users \ {target}
            /\ last' = Result("approval_callback", sender, "approved")
    /\ UNCHANGED <<envvars, dbvars, chatvars>>

\* A press by sender of a button of the request of user target; action is
\* "approve_owner", "approve_inter" or "reject".
approval_callback(sender, action, target) ==
    /\ target \in pending_users
    /\ IF sender # OWNER_ID
       THEN /\ UNCHANGED uservars
            /\ last' = Result("approval_callback", sender, "owner only")
       ELSE IF action = "reject"
       THEN /\ pending_users' = pending_users \ {target}
            /\ UNCHANGED users
            /\ last' = Result("approval_callback", sender, "rejected")
       ELSE /\ users' = [x \in (DOMAIN users) \cup {target} |->
                           IF x = target
                           THEN (IF action = "approve_owner" THEN "owner"
                                 ELSE "intermediary")
                           ELSE users[x]]
            /\ pending_users' = pending_users \ {target}
            /\ last' = Result("approval_callback", sender, "approved")
    /\ UNCHANGED <<envvars, dbvars, chatvars>>

\* ---- market rate (bot.py:247-307)
\* The scheduled job: the API answers with a rate, or the request fails and
\* the exception is logged.
fetch_market_rate(rate) ==
    /\ Len(market_rates) < MaxRates
    /\ market_rates' = Append(market_rates, [rate |-> rate])
    /\ last' = Result("fetch_market_rate", 0, "ok")
    /\ UNCHANGED <<envvars, uservars, chatvars, bulk_transfers,
                   inventory_batches, customer_transactions, tx_batch_usage,
                   seqs>>

setmarket_start(u) ==
    /\ conv[u].setmarket = END
    /\ IF get_user_role(u) = "none"
       THEN /\ UNCHANGED conv
            /\ last' = Result("setmarket_start", u, "Unauthorized")
       ELSE /\ conv' = [conv EXCEPT ![u].setmarket = SET_MARKET_RATE]
            /\ last' = Result("setmarket_start", u, "ok")
    /\ UNCHANGED <<envvars, uservars, dbvars, user_data>>

setmarket_rate(u, text) ==
    /\ TextHandler(u) = "setmarket"
    /\ IF text.kind # "number"
       THEN /\ UNCHANGED <<market_rates, conv>>
            /\ last' = Result("setmarket_rate", u, "Invalid number")
       ELSE /\ Len(market_rates) < MaxRates
            /\ market_rates' =
                   Append(market_rates, [rate |-> text.value])
            /\ conv' = [conv EXCEPT ![u].setmarket = END]
            /\ last' = Result("setmarket_rate", u, "ok")
    /\ UNCHANGED <<envvars, uservars, user_data, bulk_transfers,
                   inventory_batches, customer_transactions, tx_batch_usage,
                   seqs>>

\* ---- bulk transfer (bot.py:310-369)
bulk_start(u) ==
    /\ conv[u].bulk = END
    /\ IF get_user_role(u) = "none"
       THEN /\ UNCHANGED conv
            /\ last' = Result("bulk_start", u, "Unauthorized")
       ELSE /\ conv' = [conv EXCEPT ![u].bulk = BULK_USD]
            /\ last' = Result("bulk_start", u, "ok")
    /\ UNCHANGED <<envvars, uservars, dbvars, user_data>>

bulk_usd(u, text) ==
    /\ TextHandler(u) = "bulk"
    /\ conv[u].bulk = BULK_USD
    /\ IF text.kind # "number"
       THEN /\ UNCHANGED chatvars
            /\ last' = Result("bulk_usd", u, "Invalid number")
       ELSE /\ user_data' = [user_data EXCEPT
                               ![u] = With(@, "bulk_usd", text.value)]
            /\ conv' = [conv EXCEPT ![u].bulk = BULK_RATE]
            /\ last' = Result("bulk_usd", u, "ok")
    /\ UNCHANGED <<envvars, uservars, dbvars>>

bulk_rate(u, text) ==
    /\ TextHandler(u) = "bulk"
    /\ conv[u].bulk = BULK_RATE
    /\ IF (text.kind = "current" /\ ~HasRate) \/ text.kind = "text"
       THEN /\ UNCHANGED <<chatvars, bulk_transfers, inventory_batches, seqs>>
            /\ last' = Result("bulk_rate", u, "Invalid number")
       ELSE LET rate == IF text.kind = "current" THEN LatestRate
                        ELSE text.value
                r == RecordBulk(user_data[u].bulk_usd, rate)
            IN /\ seqs.batch < MaxLots
               /\ bulk_transfers' = r.bulk_transfers
               /\ inventory_batches' = r.inventory_batches
               /\ seqs' = r.seqs
               /\ IF r.raised
                  THEN UNCHANGED chatvars
                  ELSE /\ conv' = [conv EXCEPT ![u].bulk = END]
                       /\ user_data' = [user_data EXCEPT
                                          ![u] = Without(@, {"bulk_usd"})]
               /\ last' = [Result("bulk_rate", u,
                                  IF r.raised THEN "ZeroDivisionError"
                                  ELSE "ok")
                             EXCEPT !.usd = user_data[u].bulk_usd,
                                    !.rate = rate]
    /\ UNCHANGED <<envvars, uservars, market_rates, customer_transactions,
                   tx_batch_usage>>

\* ---- pay customer (bot.py:372-448)
pay_start(u) ==
    /\ conv[u].pay = END
    /\ IF get_user_role(u) = "none"
       THEN /\ UNCHANGED conv
            /\ last' = Result("pay_start", u, "Unauthorized")
       ELSE /\ conv' = [conv EXCEPT ![u].pay = USD_AMOUNT]
            /\ last' = Result("pay_start", u, "ok")
    /\ UNCHANGED <<envvars, uservars, dbvars, user_data>>

\* pay_usd asking for the amount again when no market rate is recorded,
\* instead of ending the conversation.
pay_usd_asks_again(u, text) ==
    /\ TextHandler(u) = "pay"
    /\ conv[u].pay = USD_AMOUNT
    /\ IF text.kind # "number"
       THEN /\ UNCHANGED chatvars
            /\ last' = Result("pay_usd", u, "Invalid number")
       ELSE IF ~HasRate
       THEN /\ UNCHANGED chatvars
            /\ last' = Result("pay_usd", u, "NoRateAvailable")
       ELSE LET usd == text.value
                market == LatestRate
                owner == owner_rate(market)
                inter == intermediary_rate(market)
                suggested == usd * inter
            IN /\ user_data' = [user_data EXCEPT ![u] =
                      With(With(With(With(With(@,
                          "usd_received", usd), "market", market),
                          "owner_rate", owner), "intermediary_rate", inter),
                          "suggested", suggested)]
               /\ conv' = [conv EXCEPT ![u].pay = CONFIRM_SUGGESTION]
               /\ last' = Result("pay_usd", u, "ok")
    /\ UNCHANGED <<envvars, uservars, dbvars>>

pay_usd(u, text) ==
    /\ TextHandler(u) = "pay"
    /\ conv[u].pay = USD_AMOUNT
    /\ IF text.kind # "number"
       THEN /\ UNCHANGED chatvars
            /\ last' = Result("pay_usd", u, "Invalid number")
       ELSE IF ~HasRate
       THEN /\ conv' = [conv EXCEPT ![u].pay = END]
            /\ UNCHANGED user_data
            /\ last' = Result("pay_usd", u, "NoRateAvailable")
       ELSE LET usd == text.value
                market == LatestRate
                owner == owner_rate(market)
                inter == intermediary_rate(market)
                suggested == usd * inter
            IN /\ user_data' = [user_data EXCEPT ![u] =
                      With(With(With(With(With(@,
                          "usd_received", usd), "market", market),
                          "owner_rate", owner), "intermediary_rate", inter),
                          "suggested", suggested)]
               /\ conv' = [conv EXCEPT ![u].pay = CONFIRM_SUGGESTION]
               /\ last' = Result("pay_usd", u, "ok")
    /\ UNCHANGED <<envvars, uservars, dbvars>>

\* ---- finalize_transaction (bot.py:450-574)
\* deduct_from_inventory as finalize_transaction reaches it: utils.py:4
\* names the file exchange_bot.db of the working directory whatever
\* database.py chose.  With the database on the volume that is another
\* file, in which no code of the bot creates a table: the SELECT of
\* utils.py:32 raises OperationalError and no table of the database changes.
UtilsDeduct(ghs_needed) ==
    IF onVolume
    THEN [db |-> inventory_batches, usage |-> NoUsage, total_cost_usd |-> 0,
          raised |-> TRUE]
    ELSE deduct_from_inventory(inventory_batches, ghs_needed)

\* finalize_transaction without the check of line 504: a sale at a loss is
\* recorded like any other.
FinalizeOutcomeNoProfitCheck(u, actual) ==
    LET ud == user_data[u]
        owner_share == ud.usd_received * ud.owner_rate
        d == UtilsDeduct(owner_share)
    IN IF actual > owner_share THEN "ExceedsOwnerShare"
       ELSE IF TotalRemaining(inventory_batches) < owner_share
       THEN "InsufficientInventory"
       ELSE IF d.raised THEN "DeductFailed"
       ELSE IF ~(FinalizeInsertColumns \subseteq tx_columns)
       THEN "OperationalError"
       ELSE "Recorded"

\* finalize_transaction without the check of line 470: any amount may be
\* paid out.
FinalizeOutcomeNoShareCheck(u, actual) ==
    LET ud == user_data[u]
        usd == ud.usd_received
        owner_share == usd * ud.owner_rate
        d == UtilsDeduct(owner_share)
    IN IF TotalRemaining(inventory_batches) < owner_share
       THEN "InsufficientInventory"
       ELSE IF d.raised THEN "DeductFailed"
       ELSE IF usd * CostScale - d.total_cost_usd < 0 THEN "NegativeProfit"
       ELSE IF ~(FinalizeInsertColumns \subseteq tx_columns)
       THEN "OperationalError"
       ELSE "Recorded"

\* finalize_transaction without the check of line 485: the deduction is
\* attempted whatever the inventory holds.
FinalizeOutcomeNoInventoryCheck(u, actual) ==
    LET ud == user_data[u]
        usd == ud.usd_received
        owner_share == usd * ud.owner_rate
        d == UtilsDeduct(owner_share)
    IN IF actual > owner_share THEN "ExceedsOwnerShare"
       ELSE IF d.raised THEN "DeductFailed"
       ELSE IF usd * CostScale - d.total_cost_usd < 0 THEN "NegativeProfit"
       ELSE IF ~(FinalizeInsertColumns \subseteq tx_columns)
       THEN "OperationalError"
       ELSE "Recorded"

\* The outcome of finalize_transaction for the sale in user_data[u] with
\* the amount paid actual, in the order of its checks.
FinalizeOutcome(u, actual) ==
    LET ud == user_data[u]
        usd == ud.usd_received
        owner_share == usd * ud.owner_rate
        total_ghs == TotalRemaining(inventory_batches)
        d == UtilsDeduct(owner_share)
        owner_profit_usd == usd * CostScale - d.total_cost_usd
    IN IF actual > owner_share THEN "ExceedsOwnerShare"
       ELSE IF total_ghs < owner_share THEN "InsufficientInventory"
       ELSE IF d.raised THEN "DeductFailed"
       ELSE IF owner_profit_usd < 0 THEN "NegativeProfit"
       ELSE IF ~(FinalizeInsertColumns \subseteq tx_columns)
       THEN "OperationalError"
       ELSE "Recorded"

\* finalize_transaction storing the market rate of the moment of the call in
\* the transaction, not the one pay_usd kept in user_data.
finalize_transaction_latest_rate(u, op, actual) ==
    LET ud == user_data[u]
        usd == ud.usd_received
        owner_share == usd * ud.owner_rate
        total_ghs == TotalRemaining(inventory_batches)
        d == UtilsDeduct(owner_share)
        owner_profit_usd == usd * CostScale - d.total_cost_usd
        outcome == FinalizeOutcome(u, actual)
        deducted == outcome \notin {"ExceedsOwnerShare",
                                    "InsufficientInventory"}
        tx_id == seqs.tx + 1
        remaining == total_ghs - owner_share
        tx == [id |-> tx_id, usd_received |-> usd,
               suggested_ghs |-> ud.suggested, actual_ghs_paid |-> actual,
               market_rate_at_time |->
                   IF HasRate THEN LatestRate ELSE ud.market,
               owner_rate_at_time |-> ud.owner_rate,
               intermediary_rate_at_time |-> ud.intermediary_rate,
               recorded_by |-> u, owner_profit_usd |-> owner_profit_usd]
    IN /\ outcome = "Recorded" => seqs.tx < MaxTx
       /\ inventory_batches' =
              IF deducted THEN d.db ELSE inventory_batches
       /\ IF outcome = "Recorded"
          THEN /\ customer_transactions' = Append(customer_transactions, tx)
               /\ tx_batch_usage' = tx_batch_usage \o
                      [i \in 1..Len(d.usage) |->
                          [tx_id |-> tx_id, batch_id |-> d.usage[i].batch_id,
                           ghs_used |-> d.usage[i].ghs_used]]
               /\ seqs' = [seqs EXCEPT !.tx = tx_id]
          ELSE UNCHANGED <<customer_transactions, tx_batch_usage, seqs>>
       /\ IF outcome = "OperationalError"
          THEN /\ UNCHANGED conv
               /\ user_data' = [user_data EXCEPT
                                  ![u] = With(@, "actual_ghs", actual)]
          ELSE /\ conv' = [conv EXCEPT ![u].pay = END]
               /\ user_data' = [user_data EXCEPT ![u] = Without(@, PayKeys)]
       /\ last' = [Result(op, u, outcome) EXCEPT
                     !.usd = usd, !.actual = actual,
                     !.owner_share = owner_share, !.total_ghs = total_ghs,
                     !.ghs_needed = IF deducted THEN owner_share ELSE 0,
                     !.usage = IF deducted THEN d.usage ELSE NoUsage,
                     !.total_cost_usd =
                         IF deducted THEN d.total_cost_usd ELSE 0,
                     !.remaining =
                         IF outcome = "Recorded" THEN remaining ELSE 0,
                     !.low_balance =
                         outcome = "Recorded" /\ remaining < LOW_BALANCE]
       /\ UNCHANGED <<envvars, uservars, market_rates, bulk_transfers>>

finalize_transaction(u, op, actual) ==
    LET ud == user_data[u]
        usd == ud.usd_received
        owner_share == usd * ud.owner_rate
        total_ghs == TotalRemaining(inventory_batches)
        d == UtilsDeduct(owner_share)
        owner_profit_usd == usd * CostScale - d.total_cost_usd
        outcome == FinalizeOutcome(u, actual)
        deducted == outcome \notin {"ExceedsOwnerShare",
                                    "InsufficientInventory"}
        tx_id == seqs.tx + 1
        remaining == total_ghs - owner_share
        tx == [id |-> tx_id, usd_received |-> usd,
               suggested_ghs |-> ud.suggested, actual_ghs_paid |-> actual,
               market_rate_at_time |-> ud.market,
               owner_rate_at_time |-> ud.owner_rate,
               intermediary_rate_at_time |-> ud.intermediary_rate,
               recorded_by |-> u, owner_profit_usd |-> owner_profit_usd]
    IN /\ outcome = "Recorded" => seqs.tx < MaxTx
       /\ inventory_batches' =
              IF deducted THEN d.db ELSE inventory_batches
       /\ IF outcome = "Recorded"
          THEN /\ customer_transactions' = Append(customer_transactions, tx)
               /\ tx_batch_usage' = tx_batch_usage \o
                      [i \in 1..Len(d.usage) |->
                          [tx_id |-> tx_id, batch_id |-> d.usage[i].batch_id,
                           ghs_used |-> d.usage[i].ghs_used]]
               /\ seqs' = [seqs EXCEPT !.tx = tx_id]
          ELSE UNCHANGED <<customer_transactions, tx_batch_usage, seqs>>
       /\ IF outcome = "OperationalError"
          THEN /\ UNCHANGED conv
               /\ user_data' = [user_data EXCEPT
                                  ![u] = With(@, "actual_ghs", actual)]
          ELSE /\ conv' = [conv EXCEPT ![u].pay = END]
               /\ user_data' = [user_data EXCEPT ![u] = Without(@, PayKeys)]
       /\ last' = [Result(op, u, outcome) EXCEPT
                     !.usd = usd, !.actual = actual,
                     !.owner_share = owner_share, !.total_ghs = total_ghs,
                     !.ghs_needed = IF deducted THEN owner_share ELSE 0,
                     !.usage = IF deducted THEN d.usage ELSE NoUsage,
                     !.total_cost_usd =
                         IF deducted THEN d.total_cost_usd ELSE 0,
                     !.remaining =
                         IF outcome = "Recorded" THEN remaining ELSE 0,
                     !.low_balance =
                         outcome = "Recorded" /\ remaining < LOW_BALANCE]
       /\ UNCHANGED <<envvars, uservars, market_rates, bulk_transfers>>

\* data is the callback data of the pressed button.
pay_confirm(u, data) ==
    /\ conv[u].pay = CONFIRM_SUGGESTION
    /\ IF data = "use_suggested"
       THEN finalize_transaction(u, "pay_confirm", user_data[u].suggested)
       ELSE IF data = "enter_different"
       THEN /\ conv' = [conv EXCEPT ![u].pay = ACTUAL_AMOUNT]
            /\ last' = Result("pay_confirm", u, "enter_different")
            /\ UNCHANGED <<envvars, uservars, dbvars, user_data>>
       ELSE /\ data = "cancel_transaction"
            /\ conv' = [conv EXCEPT ![u].pay = END]
            /\ user_data' = [user_data EXCEPT ![u] = Without(@, PayKeys)]
            /\ last' = Result("pay_confirm", u, "cancelled")
            /\ UNCHANGED <<envvars, uservars, dbvars>>

pay_actual(u, text) ==
    /\ TextHandler(u) = "pay"
    /\ conv[u].pay = ACTUAL_AMOUNT
    /\ IF text.kind # "number"
       THEN /\ last' = Result("pay_actual", u, "Invalid number")
            /\ UNCHANGED <<envvars, uservars, dbvars, chatvars>>
       ELSE finalize_transaction(u, "pay_actual", text.value)

\* ---- owner-only maintenance (bot.py:837-940)
\* arg is the argument of /deletetx: a transaction id, or 0 for a missing
\* or non-numeric argument.
\* delete_transaction giving back to each lot what the deleted transaction
\* took from it.
delete_transaction_restoring(u, arg) ==
    /\ IF get_user_role(u) # "owner"
       THEN /\ UNCHANGED <<customer_transactions, inventory_batches>>
            /\ last' = Result("delete_transaction", u, "owner only")
       ELSE IF arg = 0
       THEN /\ UNCHANGED <<customer_transactions, inventory_batches>>
            /\ last' = Result("delete_transaction", u, "usage")
       ELSE /\ customer_transactions' =
                   SelectSeq(customer_transactions, LAMBDA t : t.id # arg)
            /\ inventory_batches' =
                   [i \in 1..Len(inventory_batches) |->
                       LET b == inventory_batches[i]
                           rows == SelectSeq(tx_batch_usage,
                                             LAMBDA r : /\ r.tx_id = arg
                                                        /\ r.batch_id = b.id)
                       IN [b EXCEPT !.remaining_ghs =
                               @ + (IF rows = <<>> THEN 0
                                    ELSE rows[1].ghs_used)]]
            /\ last' = Result("delete_transaction", u, "deleted")
    /\ UNCHANGED <<envvars, uservars, chatvars, market_rates, bulk_transfers,
                   tx_batch_usage, seqs>>

\* delete_transaction open to every approved user, as the conversations are.
delete_transaction_any_role(u, arg) ==
    /\ IF get_user_role(u) = "none"
       THEN /\ UNCHANGED customer_transactions
            /\ last' = Result("delete_transaction", u, "owner only")
       ELSE IF arg = 0
       THEN /\ UNCHANGED customer_transactions
            /\ last' = Result("delete_transaction", u, "usage")
       ELSE /\ customer_transactions' =
                   SelectSeq(customer_transactions, LAMBDA t : t.id # arg)
            /\ last' = Result("delete_transaction", u, "deleted")
    /\ UNCHANGED <<envvars, uservars, chatvars, market_rates, bulk_transfers,
                   inventory_batches, tx_batch_usage, seqs>>

delete_transaction(u, arg) ==
    /\ IF get_user_role(u) # "owner"
       THEN /\ UNCHANGED customer_transactions
            /\ last' = Result("delete_transaction", u, "owner only")
       ELSE IF arg = 0
       THEN /\ UNCHANGED customer_transactions
            /\ last' = Result("delete_transaction", u, "usage")
       ELSE /\ customer_transactions' =
                   SelectSeq(customer_transactions, LAMBDA t : t.id # arg)
            /\ last' = Result("delete_transaction", u, "deleted")
    /\ UNCHANGED <<envvars, uservars, chatvars, market_rates, bulk_transfers,
                   inventory_batches, tx_batch_usage, seqs>>

reset_database(u) ==
    /\ IF get_user_role(u) # "owner"
       THEN /\ UNCHANGED <<market_rates, bulk_transfers, inventory_batches,
                           customer_transactions, tx_batch_usage>>
            /\ last' = Result("reset_database", u, "owner only")
       ELSE /\ customer_transactions' = <<>>
            /\ tx_batch_usage' = <<>>
            /\ inventory_batches' = <<>>
            /\ bulk_transfers' = <<>>
            /\ market_rates' = <<>>
            /\ last' = Result("reset_database", u, "cleared")
    /\ UNCHANGED <<envvars, uservars, chatvars, seqs>>

\* The users are taken to hold one conversation at a time: a conversation is
\* started by a user who is in none.
Idle(u) == conv[u] = [setmarket |-> END, bulk |-> END, pay |-> END]

\* The bookkeeping driven by the owner alone.
Next ==
    \/ \E rate \in MarketInputs : fetch_market_rate(rate)
    \/ Idle(OWNER_ID) /\ setmarket_start(OWNER_ID)
    \/ \E text \in Numbers(MarketInputs) \cup {NotANumber} :
           setmarket_rate(OWNER_ID, text)
    \/ Idle(OWNER_ID) /\ bulk_start(OWNER_ID)
    \/ \E text \in Numbers(BulkUsdInputs) \cup {NotANumber} :
           bulk_usd(OWNER_ID, text)
    \/ \E text \in Numbers(BulkRateInputs) \cup {NotANumber, Current} :
           bulk_rate(OWNER_ID, text)
    \/ Idle(OWNER_ID) /\ pay_start(OWNER_ID)
    \/ \E text \in Numbers(PayUsdInputs) \cup {NotANumber} :
           pay_usd(OWNER_ID, text)
    \/ \E data \in {"use_suggested", "enter_different", "cancel_transaction"} :
           pay_confirm(OWNER_ID, data)
    \/ \E text \in Numbers(ActualInputs) \cup {NotANumber} :
           pay_actual(OWNER_ID, text)
    \/ \E arg \in 0..MaxTx : delete_transaction(OWNER_ID, arg)
    \/ reset_database(OWNER_ID)

Spec == Init /\ [][Next]_vars

\* Two users selling at the same time: the owner approves user 2, sets the
\* market rate and records the intakes, and both hold pay conversations whose
\* handlers interleave in any order.
ConcMarketInputs == {5}
ConcBulkUsdInputs == {2}
ConcBulkRateInputs == {2}
ConcActualInputs == {3}

NextConc ==
    \/ \E u \in Users : Start(u)
    \/ \E sender \in Users, target \in Users,
          action \in {"approve_owner", "approve_inter", "reject"} :
           approval_callback(sender, action, target)
    \/ Idle(OWNER_ID) /\ setmarket_start(OWNER_ID)
    \/ \E text \in Numbers(ConcMarketInputs) : setmarket_rate(OWNER_ID, text)
    \/ Idle(OWNER_ID) /\ bulk_start(OWNER_ID)
    \/ \E text \in Numbers(ConcBulkUsdInputs) : bulk_usd(OWNER_ID, text)
    \/ \E text \in Numbers(ConcBulkRateInputs) \cup {Current} :
           bulk_rate(OWNER_ID, text)
    \/ \E u \in Users : Idle(u) /\ pay_start(u)
    \/ \E u \in Users, text \in Numbers(PayUsdInputs) : pay_usd(u, text)
    \/ \E u \in Users,
          data \in {"use_suggested", "enter_different", "cancel_transaction"} :
           pay_confirm(u, data)
    \/ \E u \in Users, text \in Numbers(ConcActualInputs) :
           pay_actual(u, text)

SpecConc == Init /\ [][NextConc]_vars

\* ------------------------------------------- the rate functions on their own
\* owner_rate and intermediary_rate applied, as pay_usd applies them
\* (bot.py:403-404), to every market rate of RateInputs: the database holds
\* one market rate and the owner starts sales, enters the amount and
\* confirms the suggestion or cancels.
RateInputs == 1..MaxMarket

InitRates ==
    /\ \E m \in RateInputs : market_rates = <<[rate |-> m]>>
    /\ bulk_transfers = <<>>
    /\ inventory_batches = <<>>
    /\ customer_transactions = <<>>
    /\ tx_batch_usage = <<>>
    /\ seqs = [bulk |-> 0, batch |-> 0, tx |-> 0]
    /\ pending_users = {}
    /\ users = [u \in {OWNER_ID} |-> "owner"]
    /\ conv = [u \in Users |-> [setmarket |-> END, bulk |-> END, pay |-> END]]
    /\ user_data = [u \in Users |-> NoData]
    /\ last = Result("init", 0, "ok")
    /\ onVolume = FALSE
    /\ tx_columns = InitDbTxColumns

NextRates ==
    \/ Idle(OWNER_ID) /\ pay_start(OWNER_ID)
    \/ \E text \in Numbers(PayUsdInputs) : pay_usd(OWNER_ID, text)
    \/ \E data \in {"use_suggested", "cancel_transaction"} :
           pay_confirm(OWNER_ID, data)

SpecRates == InitRates /\ [][NextRates]_vars

\* ------------------------------------------------- sales around the alert
\* The owner's bookkeeping with amounts that put the inventory on both sides
\* of the threshold of the low-balance alert: intakes of 500 USD at the
\* current market rate 2.5 and sales of 100 or 200 USD, on a database whose
\* table carries owner_profit_usd.
AlertMarketInputs == {5}
AlertBulkUsdInputs == {500}
AlertPayUsdInputs == {100, 200}

InitAlert ==
    /\ InitTables
    /\ onVolume = FALSE
    /\ tx_columns = InitDbTxColumns \cup {"owner_profit_usd"}

NextAlert ==
    \/ Idle(OWNER_ID) /\ setmarket_start(OWNER_ID)
    \/ \E text \in Numbers(AlertMarketInputs) : setmarket_rate(OWNER_ID, text)
    \/ Idle(OWNER_ID) /\ bulk_start(OWNER_ID)
    \/ \E text \in Numbers(AlertBulkUsdInputs) : bulk_usd(OWNER_ID, text)
    \/ bulk_rate(OWNER_ID, Current)
    \/ Idle(OWNER_ID) /\ pay_start(OWNER_ID)
    \/ \E text \in Numbers(AlertPayUsdInputs) : pay_usd(OWNER_ID, text)
    \/ pay_confirm(OWNER_ID, "use_suggested")

SpecAlert == InitAlert /\ [][NextAlert]_vars

\* ------------------------------------------- sales around the break-even
\* The owner's bookkeeping with lots bought below, at and above the owner
\* rate of the sales: market rate 2.5 (owner rate 2.0), intakes of 2 USD at
\* 1.0, at the current 2.5 and at 5.0 GHS/USD, and sales that enter a
\* negative as well as a positive amount of USD: pay_usd and pay_actual keep
\* whatever float() returns (bot.py:391, 443).
ProfitMarketInputs == {5}
ProfitBulkUsdInputs == {2}
ProfitBulkRateInputs == {2, 10}
ProfitPayUsdInputs == {-1, 1, 2}
ProfitActualInputs == {-9, 3}

InitProfit ==
    /\ InitTables
    /\ onVolume = FALSE
    /\ tx_columns \in {InitDbTxColumns,
                       InitDbTxColumns \cup {"owner_profit_usd"}}

NextProfit ==
    \/ Idle(OWNER_ID) /\ setmarket_start(OWNER_ID)
    \/ \E text \in Numbers(ProfitMarketInputs) : setmarket_rate(OWNER_ID, text)
    \/ Idle(OWNER_ID) /\ bulk_start(OWNER_ID)
    \/ \E text \in Numbers(ProfitBulkUsdInputs) : bulk_usd(OWNER_ID, text)
    \/ \E text \in Numbers(ProfitBulkRateInputs) \cup {Current} :
           bulk_rate(OWNER_ID, text)
    \/ Idle(OWNER_ID) /\ pay_start(OWNER_ID)
    \/ \E text \in Numbers(ProfitPayUsdInputs) : pay_usd(OWNER_ID, text)
    \/ \E data \in {"use_suggested", "enter_different"} :
           pay_confirm(OWNER_ID, data)
    \/ \E text \in Numbers(ProfitActualInputs) : pay_actual(OWNER_ID, text)

SpecProfit == InitProfit /\ [][NextProfit]_vars

\* ------------------------------------------------ requests of every user
\* Every user sends every request: user 2 asks for access and the owner
\* approves or rejects; each user, with or without a role, tries to start
\* each conversation, to delete a transaction and to reset the database,
\* while the owner's intakes and the sales of the approved users fill the
\* tables, on a database whose table carries owner_profit_usd.
RolesMarketInputs == {5}
RolesBulkUsdInputs == {2}
RolesPayUsdInputs == {1}

InitRoles ==
    /\ InitTables
    /\ onVolume = FALSE
    /\ tx_columns = InitDbTxColumns \cup {"owner_profit_usd"}

NextRoles ==
    \/ \E u \in Users : Start(u)
    \/ \E sender \in Users, target \in Users,
          action \in {"approve_owner", "approve_inter", "reject"} :
           approval_callback(sender, action, target)
    \/ \E u \in Users : Idle(u) /\ setmarket_start(u)
    \/ \E u \in Users, text \in Numbers(RolesMarketInputs) :
           setmarket_rate(u, text)
    \/ \E u \in Users : Idle(u) /\ bulk_start(u)
    \/ \E u \in Users, text \in Numbers(RolesBulkUsdInputs) :
           bulk_usd(u, text)
    \/ \E u \in Users : bulk_rate(u, Current)
    \/ \E u \in Users : Idle(u) /\ pay_start(u)
    \/ \E u \in Users, text \in Numbers(RolesPayUsdInputs) : pay_usd(u, text)
    \/ \E u \in Users : pay_confirm(u, "use_suggested")
    \/ \E u \in Users, arg \in 0..MaxTx : delete_transaction(u, arg)
    \/ \E u \in Users : reset_database(u)

SpecRoles == InitRoles /\ [][NextRoles]_vars

\* ================================================================= claims
RECURSIVE SumUsed(_)
SumUsed(usage) ==
    IF usage = <<>> THEN 0 ELSE Head(usage).ghs_used + SumUsed(Tail(usage))

\* The usage entries (or rows) that name the lot batch_id.
UsageOf(usage, batch_id) == SelectSeq(usage, LAMBDA e : e.batch_id = batch_id)

\* The lot of table batches with the id batch_id.
Lot(batches, batch_id) ==
    CHOOSE b \in {batches[i] : i \in 1..Len(batches)} : b.id = batch_id

RECURSIVE CostOfUsage(_, _)
CostOfUsage(usage, batches) ==
    IF usage = <<>> THEN 0
    ELSE Head(usage).ghs_used
             * Lot(batches, Head(usage).batch_id).usd_cost_per_ghs
         + CostOfUsage(Tail(usage), batches)

\* C1 (as claimed): deduct(x) with x greater than the total remaining fails
\* with InsufficientInventory and leaves every lot's remaining quantity as
\* it was before the call.
C1_FailedDeductLeavesLots ==
    [][(last'.op = "deduct"
        /\ last'.ghs_needed > TotalRemaining(inventory_batches))
       => (last'.outcome = "InsufficientInventory"
           /\ inventory_batches' = inventory_batches)]_vars

FinalizeOutcomes ==
    {"ExceedsOwnerShare", "InsufficientInventory", "DeductFailed",
     "NegativeProfit", "OperationalError", "Recorded"}

\* The last call was a finalize_transaction whose sale passed the check of
\* the owner's share, the check of the inventory (with the deduction that
\* follows it) and the check of the profit.
PassedAllChecks(l) ==
    /\ l.outcome \in FinalizeOutcomes
    /\ l.actual <= l.owner_share
    /\ l.total_ghs >= l.owner_share
    /\ l.outcome # "DeductFailed"
    /\ l.usd * CostScale - l.total_cost_usd >= 0

Rows(table) == {table[i] : i \in 1..Len(table)}

\* The quantity a lot was created with: ghs_received of its bulk transfer.
OriginalQuantity(b) ==
    (CHOOSE t \in Rows(bulk_transfers) : t.id = b.bulk_id).ghs_received

\* C2 (as claimed): a sale rejected for a negative owner profit leaves the
\* lots, the transaction log and the usage rows as they were before the call.
C2_NegativeProfitLeavesState ==
    [][last'.outcome = "NegativeProfit"
       => /\ inventory_batches' = inventory_batches
          /\ customer_transactions' = customer_transactions
          /\ tx_batch_usage' = tx_batch_usage]_vars

\* C4: no recorded customer transaction has a negative owner profit.
C4_NoNegativeProfitRecorded ==
    \A t \in Rows(customer_transactions) : t.owner_profit_usd >= 0

\* C4 witness: a recorded sale that consumed inventory at a cost.
C4_Witness ==
    /\ last.outcome = "Recorded"
    /\ last.total_cost_usd > 0
    /\ \E t \in Rows(customer_transactions) :
           /\ t.owner_profit_usd = last.usd * CostScale - last.total_cost_usd
           /\ t.owner_profit_usd >= 0

\* C5: every recorded customer transaction pays out at most the amount
\* received times the owner rate of the sale, and a finalize call with a
\* higher amount paid is rejected with ExceedsOwnerShare and records nothing.
C5_PaidWithinOwnerShare ==
    /\ \A t \in Rows(customer_transactions) :
           t.actual_ghs_paid <= t.usd_received * t.owner_rate_at_time
    /\ (last.outcome \in FinalizeOutcomes /\ last.actual > last.owner_share)
       => last.outcome = "ExceedsOwnerShare"

\* C5 witness: a sale is on record and a later call that paid more than the
\* owner's share was rejected.
C5_Witness ==
    /\ customer_transactions # <<>>
    /\ last.outcome = "ExceedsOwnerShare"
    /\ last.actual > last.owner_share

\* C6 (as claimed): a finalize call that passes the three checks appends one
\* customer transaction and one usage row per entry of its deduction.
C6_PassedSaleIsRecorded ==
    [][PassedAllChecks(last')
       => /\ Len(customer_transactions') = Len(customer_transactions) + 1
          /\ Len(tx_batch_usage')
                 = Len(tx_batch_usage) + Len(last'.usage)
          /\ \A k \in 1..Len(last'.usage) :
                 LET row == tx_batch_usage'[Len(tx_batch_usage) + k]
                 IN /\ row.tx_id = seqs'.tx
                    /\ row.batch_id = last'.usage[k].batch_id
                    /\ row.ghs_used = last'.usage[k].ghs_used]_vars

\* C6, on a table that carries owner_profit_usd (a file older than the
\* CREATE TABLE IF NOT EXISTS of database.py:44): the statement of C6 holds.
C6_WithProfitColumn ==
    [][(FinalizeInsertColumns \subseteq tx_columns /\ PassedAllChecks(last'))
       => /\ Len(customer_transactions') = Len(customer_transactions) + 1
          /\ Len(tx_batch_usage')
                 = Len(tx_batch_usage) + Len(last'.usage)]_vars

\* C7 (as claimed): on the table that init_db creates, persisting a sale
\* that passed the checks finds every field it writes and records the sale.
C7_TableHasEveryInsertedField ==
    (tx_columns = InitDbTxColumns /\ PassedAllChecks(last))
    => (FinalizeInsertColumns \subseteq tx_columns
        /\ last.outcome = "Recorded")

\* C8 (as claimed): however the finalize calls of several users interleave,
\* no lot's remaining quantity becomes negative, the usage rows of a lot
\* never add up to more than was taken out of it (no unit is sold twice),
\* and a call that passed the owner-share check and the inventory check
\* does not fail in the deduction.
C8_ConcurrentFinalizeAtomic ==
    [][/\ \A b \in Rows(inventory_batches') :
              /\ b.remaining_ghs >= 0
              /\ SumUsed(UsageOf(tx_batch_usage', b.id))
                     <= OriginalQuantity(b)' - b.remaining_ghs
       /\ (/\ last'.outcome \in FinalizeOutcomes
           /\ last'.actual <= last'.owner_share
           /\ last'.total_ghs >= last'.owner_share)
          => last'.outcome # "DeductFailed"]_vars

\* C8, on a database that is not on the volume (database.py:11), where
\* utils.py and bot.py open the same file: the statement of C8 holds.
C8_SameDatabaseFile ==
    [][~onVolume
       => /\ \A b \in Rows(inventory_batches') :
                 /\ b.remaining_ghs >= 0
                 /\ SumUsed(UsageOf(tx_batch_usage', b.id))
                        <= OriginalQuantity(b)' - b.remaining_ghs
          /\ (/\ last'.outcome \in FinalizeOutcomes
              /\ last'.actual <= last'.owner_share
              /\ last'.total_ghs >= last'.owner_share)
             => last'.outcome # "DeductFailed"]_vars

\* Two sales of different users, begun before either was finalized, both
\* recorded and both drawing on the same lot.
C8_TwoSalesOneLot ==
    /\ Len(customer_transactions) = 2
    /\ customer_transactions[1].recorded_by
           # customer_transactions[2].recorded_by
    /\ \E b \in Rows(inventory_batches) :
           Len(UsageOf(tx_batch_usage, b.id)) = 2

\* C9 (as claimed): every lot has a remaining quantity >= 0 and a unit
\* cost > 0.
C9_LotsNonNegative ==
    \A b \in Rows(inventory_batches) :
        b.remaining_ghs >= 0 /\ b.usd_cost_per_ghs > 0

\* C10 (as claimed): for every lot, the quantities of the usage rows that
\* name it sum to at most the quantity the lot was created with.
C10_UsageWithinOriginal ==
    \A b \in Rows(inventory_batches) :
        SumUsed(UsageOf(tx_batch_usage, b.id)) <= OriginalQuantity(b)

\* C10, for the lots that were created with a quantity >= 0: the statement
\* of C10 holds.
C10_LotsOfNonNegativeQuantity ==
    \A b \in Rows(inventory_batches) :
        OriginalQuantity(b) >= 0
        => SumUsed(UsageOf(tx_batch_usage, b.id)) <= OriginalQuantity(b)

\* A step keeps the lot b: the lot is still in the table with the same unit
\* cost, and its remaining quantity is the same or was lowered by exactly
\* what the usage list of the step's deduction says.
LotKept(b) ==
    \E b2 \in Rows(inventory_batches') :
        /\ b2.id = b.id
        /\ b2.usd_cost_per_ghs = b.usd_cost_per_ghs
        /\ b2.remaining_ghs <= b.remaining_ghs
        /\ b2.remaining_ghs # b.remaining_ghs
           => /\ last'.outcome \in FinalizeOutcomes
              /\ b.remaining_ghs - b2.remaining_ghs
                     = SumUsed(UsageOf(last'.usage, b.id))

\* C11 (as claimed): across every step, every lot stays in the table, keeps
\* its unit cost, and its remaining quantity changes only by a deduction
\* that lowers it.
C11_LotsPersistAndOnlyDecrease ==
    [][\A b \in Rows(inventory_batches) : LotKept(b)]_vars

\* C11, for every step other than the owner's reset of the database: the
\* statement of C11 holds.
C11_ExceptReset ==
    [][last'.op # "reset_database"
       => \A b \in Rows(inventory_batches) : LotKept(b)]_vars

\* C12 (as claimed): an intake whose amount or rate is <= 0 fails with
\* InvalidAmount and creates neither a bulk transfer nor a lot.
C12_InvalidIntakeRejected ==
    [][(/\ last'.op = "bulk_rate"
        /\ last'.outcome # "Invalid number"
        /\ (last'.usd <= 0 \/ last'.rate <= 0))
       => /\ last'.outcome = "InvalidAmount"
          /\ bulk_transfers' = bulk_transfers
          /\ inventory_batches' = inventory_batches]_vars

\* C12, for the rate 0 alone: the intake creates neither a bulk transfer nor
\* a lot, the call ending in the ZeroDivisionError of bot.py:364.
C12_ZeroRateCreatesNothing ==
    [][(last'.op = "bulk_rate" /\ last'.outcome # "Invalid number"
        /\ last'.rate = 0)
       => /\ last'.outcome = "ZeroDivisionError"
          /\ bulk_transfers' = bulk_transfers
          /\ inventory_batches' = inventory_batches]_vars

\* Bulk transfers and lots correspond one to one, and each pair carries the
\* amounts of its intake: ghs_received = usd_amount * market_rate and
\* usd_cost_per_ghs = 1 / market_rate.
TransfersMatchLots ==
    /\ Len(bulk_transfers) = Len(inventory_batches)
    /\ \A t \in Rows(bulk_transfers) :
           /\ Cardinality({b \in Rows(inventory_batches) : b.bulk_id = t.id})
                  = 1
           /\ t.ghs_received = t.usd_amount * t.market_rate
           /\ t.market_rate # 0
           /\ \A b \in Rows(inventory_batches) :
                  b.bulk_id = t.id
                  => b.usd_cost_per_ghs * t.market_rate = CostScale
    /\ \A b \in Rows(inventory_batches) :
           Cardinality({t \in Rows(bulk_transfers) : t.id = b.bulk_id}) = 1

\* C13: after every step the bulk transfers and the lots are in one-to-one
\* correspondence; a recorded intake of usd at rate adds exactly one bulk
\* transfer with ghs_received = usd * rate and exactly one lot of that
\* transfer with remaining_ghs = ghs_received and usd_cost_per_ghs = 1/rate;
\* an intake that fails at the division stores neither.
C13_IntakeCreatesTransferAndLot ==
    [][/\ TransfersMatchLots'
       /\ (last'.op = "bulk_rate" /\ last'.outcome = "ok")
          => /\ Len(bulk_transfers') = Len(bulk_transfers) + 1
             /\ Len(inventory_batches') = Len(inventory_batches) + 1
             /\ SubSeq(bulk_transfers', 1, Len(bulk_transfers))
                    = bulk_transfers
             /\ SubSeq(inventory_batches', 1, Len(inventory_batches))
                    = inventory_batches
             /\ LET t == bulk_transfers'[Len(bulk_transfers')]
                    b == inventory_batches'[Len(inventory_batches')]
                IN /\ t.usd_amount = last'.usd
                   /\ t.market_rate = last'.rate
                   /\ t.ghs_received = last'.usd * last'.rate
                   /\ b.bulk_id = t.id
                   /\ b.remaining_ghs = t.ghs_received
                   /\ b.usd_cost_per_ghs * last'.rate = CostScale
       /\ (last'.op = "bulk_rate" /\ last'.outcome # "ok")
          => /\ bulk_transfers' = bulk_transfers
             /\ inventory_batches' = inventory_batches]_vars

\* C13 witness: a second intake has just been recorded while the lot of the
\* first is partly sold.
C13_Witness ==
    /\ last.op = "bulk_rate"
    /\ last.outcome = "ok"
    /\ Len(bulk_transfers) = 2
    /\ \E b \in Rows(inventory_batches) :
           0 < b.remaining_ghs /\ b.remaining_ghs < OriginalQuantity(b)

\* An intake has just failed at the division while a lot exists.
C13_FailedIntakeReached ==
    /\ last.op = "bulk_rate"
    /\ last.outcome = "ZeroDivisionError"
    /\ Len(inventory_batches) = 1

\* C14 (as claimed): a sale whose owner share is <= 0 records no customer
\* transaction, and when it reaches the deduction (it passed the owner-share
\* check and the inventory check) the deduction fails with InvalidAmount and
\* changes no lot.
C14_NonPositiveShareNotRecorded ==
    [][(last'.outcome \in FinalizeOutcomes /\ last'.owner_share <= 0)
       => /\ customer_transactions' = customer_transactions
          /\ (/\ last'.actual <= last'.owner_share
              /\ TotalRemaining(inventory_batches) >= last'.owner_share)
             => /\ last'.outcome = "InvalidAmount"
                /\ inventory_batches' = inventory_batches]_vars

\* C14, what deduct_from_inventory does with an amount <= 0: it returns an
\* empty usage list and a cost of 0 without raising, and changes no lot.
C14_DeductNonPositiveIsNoOp ==
    [][(last'.op = "deduct" /\ last'.ghs_needed <= 0)
       => /\ last'.outcome = "ok"
          /\ last'.usage = NoUsage
          /\ last'.total_cost_usd = 0
          /\ inventory_batches' = inventory_batches]_vars

\* A sale with an owner share of 0 has been recorded.
C14_ZeroShareSaleRecorded ==
    /\ last.outcome = "Recorded"
    /\ last.owner_share = 0
    /\ customer_transactions # <<>>

\* C15: for every market rate m > 0 that a sale reads, the owner rate is the
\* largest multiple of 0.5 that is at most 0.8 * m and the intermediary rate
\* the largest multiple of 0.5 that is at most 0.75 * m; m = 15.5 gives 12.0
\* and 11.5.  (Rates are counts of 0.5: 0.8 * m is 4 * m / 5 and 0.75 * m is
\* 3 * m / 4.)
C15_RatesAreFlooredShares ==
    \A u \in Users :
        "owner_rate" \in DOMAIN user_data[u]
        => LET m == user_data[u].market
               o == user_data[u].owner_rate
               i == user_data[u].intermediary_rate
           IN m > 0
              => /\ 5 * o <= 4 * m /\ 4 * m < 5 * (o + 1)
                 /\ 4 * i <= 3 * m /\ 3 * m < 4 * (i + 1)
                 /\ o = owner_rate(m) /\ i = intermediary_rate(m)
                 /\ m = 31 => (o = 24 /\ i = 23)

\* C15 witness: a sale at the market rate 15.5 reads the owner rate 12.0 and
\* the intermediary rate 11.5.
C15_Witness ==
    /\ last.op = "pay_usd"
    /\ "owner_rate" \in DOMAIN user_data[OWNER_ID]
    /\ user_data[OWNER_ID].market = 31
    /\ user_data[OWNER_ID].owner_rate = 24
    /\ user_data[OWNER_ID].intermediary_rate = 23

\* C16: a finalize call rejected with ExceedsOwnerShare or with
\* InsufficientInventory leaves the lots, the transaction log and the usage
\* rows unchanged, and a call that passed the owner-share check is rejected
\* with InsufficientInventory exactly when the total remaining before the
\* call is less than the owner's share.
C16_EarlyRejectsChangeNothing ==
    [][last'.outcome \in FinalizeOutcomes
       => /\ last'.outcome \in {"ExceedsOwnerShare", "InsufficientInventory"}
             => /\ inventory_batches' = inventory_batches
                /\ customer_transactions' = customer_transactions
                /\ tx_batch_usage' = tx_batch_usage
          /\ last'.outcome = "ExceedsOwnerShare"
             <=> last'.actual > last'.owner_share
          /\ last'.actual <= last'.owner_share
             => (last'.outcome = "InsufficientInventory"
                 <=> TotalRemaining(inventory_batches) < last'.owner_share)]_vars

\* C16 witness: with lots in the inventory that do not cover the owner's
\* share, the sale was rejected with InsufficientInventory.
C16_Witness ==
    /\ last.outcome = "InsufficientInventory"
    /\ 0 < last.total_ghs
    /\ last.total_ghs < last.owner_share
    /\ last.total_ghs = TotalRemaining(inventory_batches)

\* A sale was rejected with ExceedsOwnerShare while lots and recorded sales
\* exist.
C16_ExceedsReached ==
    /\ last.outcome = "ExceedsOwnerShare"
    /\ TotalRemaining(inventory_batches) >= last.owner_share
    /\ customer_transactions # <<>>

\* C17 (as claimed): every recorded market rate is > 0.
C17_MarketRatesPositive ==
    \A r \in Rows(market_rates) : r.rate > 0

\* C18: when no market rate is recorded, entering the amount received ends
\* the sale: the reply is that no rate is available, the pay conversation of
\* the user is over (no handler that leads to finalize_transaction accepts
\* an update of the user any more), and no lot, customer transaction or
\* usage row changes.
C18_NoRateAbandonsSale ==
    [][(/\ last'.op = "pay_usd"
        /\ last'.outcome # "Invalid number"
        /\ market_rates = <<>>)
       => /\ last'.outcome = "NoRateAvailable"
          /\ conv'[last'.user].pay = END
          /\ inventory_batches' = inventory_batches
          /\ customer_transactions' = customer_transactions
          /\ tx_batch_usage' = tx_batch_usage]_vars

\* C18 witness: with a lot in the inventory and no market rate recorded, a
\* sale was abandoned when its amount was entered.
C18_Witness ==
    /\ last.op = "pay_usd"
    /\ last.outcome = "NoRateAvailable"
    /\ market_rates = <<>>
    /\ inventory_batches # <<>>
    /\ conv[last.user].pay = END

\* C19: a deletion by the owner removes the customer transaction of one id
\* and no other, and leaves every lot as it was: what the deleted sale
\* consumed is not given back.
C19_DeleteLeavesLots ==
    [][last'.op = "delete_transaction"
       => /\ inventory_batches' = inventory_batches
          /\ \E arg \in 0..MaxTx :
                 customer_transactions' =
                     SelectSeq(customer_transactions, LAMBDA t : t.id # arg)
          /\ last'.outcome # "deleted"
             => customer_transactions' = customer_transactions]_vars

\* C19 witness: a recorded sale that consumed part of a lot has just been
\* deleted; its usage row is still there and the lot is still short of the
\* quantity.
C19_Witness ==
    /\ last.op = "delete_transaction"
    /\ last.outcome = "deleted"
    /\ \E r \in Rows(tx_batch_usage) :
           /\ r.ghs_used > 0
           /\ \A t \in Rows(customer_transactions) : t.id # r.tx_id
           /\ \E b \in Rows(inventory_batches) :
                  /\ b.id = r.batch_id
                  /\ b.remaining_ghs = OriginalQuantity(b) - r.ghs_used

\* C20 (as claimed): every recorded customer transaction whose owner share
\* (the amount deducted for it) is not zero has at least one usage row.
C20_SaleHasUsageRow ==
    \A t \in Rows(customer_transactions) :
        t.usd_received * t.owner_rate_at_time # 0
        => \E r \in Rows(tx_batch_usage) : r.tx_id = t.id /\ r.ghs_used > 0

\* C20, for the sales with a positive owner share: the statement of C20
\* holds.
C20_PositiveShareHasUsageRow ==
    \A t \in Rows(customer_transactions) :
        t.usd_received * t.owner_rate_at_time > 0
        => \E r \in Rows(tx_batch_usage) : r.tx_id = t.id /\ r.ghs_used > 0

\* Two sales are on record, one with a positive owner share and usage rows,
\* one with an owner share of zero and no usage row.
C20_BothKindsRecorded ==
    /\ \E t \in Rows(customer_transactions) :
           /\ t.usd_received * t.owner_rate_at_time > 0
           /\ \E r \in Rows(tx_batch_usage) : r.tx_id = t.id
    /\ \E t \in Rows(customer_transactions) :
           /\ t.usd_received * t.owner_rate_at_time = 0
           /\ \A r \in Rows(tx_batch_usage) : r.tx_id # t.id

\* The usage rows of the customer transaction tx_id.
RowsOfTx(tx_id) == SelectSeq(tx_batch_usage, LAMBDA r : r.tx_id = tx_id)

\* C21 (as claimed): for every recorded customer transaction the owner
\* profit is the amount received minus the sum, over its usage rows, of
\* quantity used times the unit cost of the lot, and the quantities of its
\* usage rows sum to the amount received times the owner rate of the sale.
C21_ProfitAndUsageOfSale ==
    \A t \in Rows(customer_transactions) :
        /\ t.owner_profit_usd
               = t.usd_received * CostScale
                 - CostOfUsage(RowsOfTx(t.id), inventory_batches)
        /\ SumUsed(RowsOfTx(t.id)) = t.usd_received * t.owner_rate_at_time

\* C21, for the sales with an owner share >= 0: the statement of C21 holds.
C21_ForNonNegativeShare ==
    \A t \in Rows(customer_transactions) :
        t.usd_received * t.owner_rate_at_time >= 0
        => /\ t.owner_profit_usd
                  = t.usd_received * CostScale
                    - CostOfUsage(RowsOfTx(t.id), inventory_batches)
           /\ SumUsed(RowsOfTx(t.id))
                  = t.usd_received * t.owner_rate_at_time

\* A sale that drew on two lots is on record.
C21_SaleOverTwoLots ==
    \E t \in Rows(customer_transactions) :
        /\ Len(RowsOfTx(t.id)) = 2
        /\ t.owner_profit_usd < t.usd_received * CostScale

\* C22 (as claimed): a recorded sale reports as remaining the total of the
\* lots before the sale minus the owner's share, which is the total of the
\* lots after the sale, and the low-balance alert is sent exactly when that
\* value is below the threshold; a sale that is not recorded sends no alert.
C22_RemainingAndLowBalance ==
    [][last'.outcome \in FinalizeOutcomes
       => /\ last'.outcome = "Recorded"
             => /\ last'.remaining
                       = TotalRemaining(inventory_batches) - last'.owner_share
                /\ last'.remaining = TotalRemaining(inventory_batches')
                /\ last'.low_balance <=> last'.remaining < LOW_BALANCE
          /\ last'.outcome # "Recorded" => ~last'.low_balance]_vars

\* C22, for the sales with an owner share >= 0: the statement of C22 holds.
C22_ForNonNegativeShare ==
    [][(last'.outcome \in FinalizeOutcomes /\ last'.owner_share >= 0)
       => /\ last'.outcome = "Recorded"
             => /\ last'.remaining
                       = TotalRemaining(inventory_batches) - last'.owner_share
                /\ last'.remaining = TotalRemaining(inventory_batches')
                /\ last'.low_balance <=> last'.remaining < LOW_BALANCE
          /\ last'.outcome # "Recorded" => ~last'.low_balance]_vars

\* A sale was recorded that left the inventory at or above the threshold,
\* and no alert was sent.
C22_NoAlertReached ==
    /\ last.outcome = "Recorded"
    /\ last.remaining >= LOW_BALANCE
    /\ ~last.low_balance

\* A sale was recorded that took the inventory from above the threshold to
\* below it, and the alert was sent.
C22_AlertReached ==
    /\ last.outcome = "Recorded"
    /\ last.total_ghs >= LOW_BALANCE
    /\ last.remaining < LOW_BALANCE
    /\ last.low_balance

\* C23 (as claimed): on a ledger whose total remaining is positive,
\* deducting exactly that total succeeds and leaves the total at 0 with
\* every lot at a remaining quantity of 0.
C23_DeductAllEmptiesLedger ==
    [][(/\ last'.op = "deduct"
        /\ TotalRemaining(inventory_batches) > 0
        /\ last'.ghs_needed = TotalRemaining(inventory_batches))
       => /\ last'.outcome = "ok"
          /\ TotalRemaining(inventory_batches') = 0
          /\ \A b \in Rows(inventory_batches') : b.remaining_ghs = 0]_vars

\* C23, on a ledger without a lot of negative quantity: the statement of
\* C23 holds.
C23_WithoutNegativeLots ==
    [][(/\ last'.op = "deduct"
        /\ \A b \in Rows(inventory_batches) : b.remaining_ghs >= 0
        /\ TotalRemaining(inventory_batches) > 0
        /\ last'.ghs_needed = TotalRemaining(inventory_batches))
       => /\ last'.outcome = "ok"
          /\ TotalRemaining(inventory_batches') = 0
          /\ \A b \in Rows(inventory_batches') : b.remaining_ghs = 0]_vars

\* The whole of a ledger of two lots with positive quantities has just been
\* deducted.
C23_TwoLotsEmptied ==
    /\ last.op = "deduct"
    /\ last.outcome = "ok"
    /\ Len(last.usage) = 2
    /\ Len(inventory_batches) = 2
    /\ \A b \in Rows(inventory_batches) :
           b.remaining_ghs = 0 /\ OriginalQuantity(b) > 0

\* C24: for every market rate m > 0 that a sale reads, the remainder
\* base - floor_step(base, 0.5) is >= 0 and < 0.5 for base = m * 0.8 and for
\* base = m * 0.75, and the owner rate and the intermediary rate are the
\* floored values themselves, never the floored value minus 0.5.  (base and
\* the step 0.5 are counts of 0.5/20: m * 16, m * 15 and 20.)
C24_CorrectionBranchDead ==
    \A u \in Users :
        "owner_rate" \in DOMAIN user_data[u]
        => LET m == user_data[u].market
               obase == m * 16
               ofloored == floor_step(obase, 20)
               ibase == m * 15
               ifloored == floor_step(ibase, 20)
           IN m > 0
              => /\ 0 <= obase - ofloored /\ obase - ofloored < 20
                 /\ 0 <= ibase - ifloored /\ ibase - ifloored < 20
                 /\ user_data[u].owner_rate * 20 = ofloored
                 /\ user_data[u].intermediary_rate * 20 = ifloored

\* C24 witness: a sale read the market rate 1.5, for which both remainders
\* are positive (0.2 and 0.125), and got the floored rates 1.0 and 1.0.
C24_Witness ==
    /\ last.op = "pay_usd"
    /\ "owner_rate" \in DOMAIN user_data[OWNER_ID]
    /\ user_data[OWNER_ID].market = 3
    /\ user_data[OWNER_ID].owner_rate = 2
    /\ user_data[OWNER_ID].intermediary_rate = 2

\* C25: for every market rate m > 0 that a sale reads, the intermediary
\* rate is at most the owner rate and, the amount received being >= 0, the
\* suggested amount is at most the owner's share; confirming the suggestion
\* of such a sale is never rejected with ExceedsOwnerShare.
C25_SuggestionWithinOwnerShare ==
    [][/\ \A u \in Users :
              ("owner_rate" \in DOMAIN user_data'[u]
               /\ user_data'[u].market > 0)
              => /\ user_data'[u].intermediary_rate
                        <= user_data'[u].owner_rate
                 /\ intermediary_rate(user_data'[u].market)
                        <= owner_rate(user_data'[u].market)
                 /\ user_data'[u].usd_received >= 0
                    => user_data'[u].suggested
                           <= user_data'[u].usd_received
                              * user_data'[u].owner_rate
       /\ (/\ last'.op = "pay_confirm"
           /\ last'.outcome \in FinalizeOutcomes
           /\ user_data[last'.user].market > 0
           /\ last'.usd >= 0)
          => last'.outcome # "ExceedsOwnerShare"]_vars

\* C25 witness: the suggestion of a sale at a market rate whose intermediary
\* rate is below the owner rate was confirmed and passed the owner-share
\* check.
C25_Witness ==
    /\ last.op = "pay_confirm"
    /\ last.outcome  = "InsufficientInventory"
    /\ 0 < last.actual
    /\ last.actual < last.owner_share
    /\ LatestRate > 0

\* No customer transaction has been deleted and the database has not been
\* reset: every id the AUTOINCREMENT counters have given out is still in its
\* table (DELETE does not reset the counters).
NothingDeleted ==
    /\ seqs.tx = Len(customer_transactions)
    /\ seqs.batch = Len(inventory_batches)
    /\ seqs.bulk = Len(bulk_transfers)

\* C26 (as claimed): as long as no transaction has been deleted and the
\* database has not been reset, what each lot has lost of its original
\* quantity is the sum of the quantities of the usage rows that name it.
C26_Conservation ==
    NothingDeleted
    => \A b \in Rows(inventory_batches) :
           OriginalQuantity(b) - b.remaining_ghs
               = SumUsed(UsageOf(tx_batch_usage, b.id))

\* C26, one direction: under the same condition the usage rows of a lot
\* never add up to more than the lot has lost.
C26_UsageAtMostRemoved ==
    NothingDeleted
    => \A b \in Rows(inventory_batches) :
           SumUsed(UsageOf(tx_batch_usage, b.id))
               <= OriginalQuantity(b) - b.remaining_ghs

\* C27 (as claimed): with one call at a time, a finalize call that passed
\* the owner-share check and whose owner share is covered by the total
\* remaining of all lots does not fail in the deduction.
C27_CheckedDeductionSucceeds ==
    [][(/\ last'.outcome \in FinalizeOutcomes
        /\ last'.actual <= last'.owner_share
        /\ TotalRemaining(inventory_batches) >= last'.owner_share)
       => /\ last'.outcome # "DeductFailed"
          /\ last'.owner_share > 0
             => SumUsed(last'.usage) = last'.owner_share]_vars

\* C27, on a database that is not on the volume, where utils.py and bot.py
\* open the same file: the statement of C27 holds.
C27_SameDatabaseFile ==
    [][(/\ ~onVolume
        /\ last'.outcome \in FinalizeOutcomes
        /\ last'.actual <= last'.owner_share
        /\ TotalRemaining(inventory_batches) >= last'.owner_share)
       => /\ last'.outcome # "DeductFailed"
          /\ last'.owner_share > 0
             => SumUsed(last'.usage) = last'.owner_share]_vars

\* A sale passed the inventory check and its deduction succeeded while the
\* inventory held a lot of negative quantity, which the check adds in and
\* the deduction skips.
C27_NegativeLotReached ==
    /\ last.outcome \in {"NegativeProfit", "OperationalError", "Recorded"}
    /\ last.owner_share > 0
    /\ \E b \in Rows(inventory_batches) : b.remaining_ghs < 0

\* C28 (as claimed): in every deployment the deduction works on the lots
\* that the inventory check read: a finalize call that passed the
\* owner-share check and the inventory check with a positive owner share
\* takes exactly the owner share out of those lots.
C28_DeductionUsesCheckedStore ==
    [][(/\ last'.outcome \in FinalizeOutcomes
        /\ last'.actual <= last'.owner_share
        /\ last'.owner_share > 0
        /\ TotalRemaining(inventory_batches) >= last'.owner_share)
       => TotalRemaining(inventory_batches')
              = TotalRemaining(inventory_batches) - last'.owner_share]_vars

\* C28, on a database in the working directory (no volume): the deduction
\* takes the owner share out of the lots that the check read.
C28_LocalDeployment ==
    [][(/\ ~onVolume
        /\ last'.outcome \in FinalizeOutcomes
        /\ last'.actual <= last'.owner_share
        /\ last'.owner_share > 0
        /\ TotalRemaining(inventory_batches) >= last'.owner_share)
       => TotalRemaining(inventory_batches')
              = TotalRemaining(inventory_batches) - last'.owner_share]_vars

\* A sale was recorded, its owner share taken from the lots, on a database
\* in the working directory.
C28_LocalSaleReached ==
    /\ ~onVolume
    /\ last.outcome = "Recorded"
    /\ last.owner_share > 0
    /\ SumUsed(last.usage) = last.owner_share

\* C29 (as claimed): every usage row refers to a customer transaction that
\* is in the transaction table, also after a transaction was deleted.
C29_NoOrphanUsage ==
    \A r \in Rows(tx_batch_usage) :
        \E t \in Rows(customer_transactions) : t.id = r.tx_id

\* C29, as long as no transaction was deleted (and nothing reset): every
\* usage row refers to a transaction of the table.
C29_WithoutDeletion ==
    seqs.tx = Len(customer_transactions) => C29_NoOrphanUsage

\* A sale with a usage row is recorded and nothing was deleted.
C29_UsageRecorded ==
    /\ seqs.tx = Len(customer_transactions)
    /\ tx_batch_usage # <<>>
    /\ last.outcome = "Recorded"

\* The rate a lot was bought at: market_rate of its bulk transfer.
RateApplied(b) ==
    (CHOOSE t \in Rows(bulk_transfers) : t.id = b.bulk_id).market_rate

\* The lots that the deduction of the last call took from.
Consumed(l) == {Lot(inventory_batches, r.batch_id) : r \in Rows(l.usage)}

Deducted == {"NegativeProfit", "OperationalError", "Recorded"}

\* C30 (as claimed): a sale of a non-negative amount whose consumed lots
\* were all bought at a rate of at least the owner rate of the sale has an
\* owner profit of at least 0 and is not rejected for a negative profit;
\* and a sale is rejected for a negative profit only when one of its
\* consumed lots was bought at a rate below the owner rate of the sale.
C30_ProfitByLotRates ==
    [][last'.outcome \in Deducted
       => LET o == user_data[last'.user].owner_rate
              profit == last'.usd * CostScale - last'.total_cost_usd
          IN /\ (/\ last'.usd >= 0
                 /\ \A b \in Consumed(last') : RateApplied(b) >= o)
                => /\ profit >= 0
                   /\ last'.outcome # "NegativeProfit"
             /\ last'.outcome = "NegativeProfit"
                => \E b \in Consumed(last') : RateApplied(b) < o]_vars

\* C30, for sales of a non-negative amount and in exact arithmetic: both
\* directions of C30 hold.
C30_ForNonNegativeAmounts ==
    [][(last'.outcome \in Deducted /\ last'.usd >= 0)
       => LET o == user_data[last'.user].owner_rate
              profit == last'.usd * CostScale - last'.total_cost_usd
          IN /\ (\A b \in Consumed(last') : RateApplied(b) >= o)
                => /\ profit >= 0
                   /\ last'.outcome # "NegativeProfit"
             /\ last'.outcome = "NegativeProfit"
                => \E b \in Consumed(last') : RateApplied(b) < o]_vars

\* A sale of a positive amount that took from two lots, one bought below
\* the owner rate and one bought at the owner rate or above, was rejected
\* for a negative profit.
C30_LossOverTwoLots ==
    /\ last.outcome = "NegativeProfit"
    /\ last.usd > 0
    /\ HasRate
    /\ \E b1, b2 \in Consumed(last) :
           /\ RateApplied(b1) < owner_rate(LatestRate)
           /\ RateApplied(b2) >= owner_rate(LatestRate)

\* A sale of a positive amount that took from a lot was recorded with a
\* profit of at least 0.
C30_ProfitableSaleRecorded ==
    /\ last.outcome = "Recorded"
    /\ last.usd > 0
    /\ last.usage # <<>>
    /\ last.usd * CostScale - last.total_cost_usd >= 0

\* C31: every recorded customer transaction carries the snapshot that pay_usd
\* took when the amount received was entered: its owner rate and its
\* intermediary rate are those of its market rate, and its suggested amount
\* is the amount received times its intermediary rate, also when the market
\* rate changed before the sale was finalized.
C31_TransactionCarriesSnapshot ==
    \A t \in Rows(customer_transactions) :
        /\ t.owner_rate_at_time = owner_rate(t.market_rate_at_time)
        /\ t.intermediary_rate_at_time
               = intermediary_rate(t.market_rate_at_time)
        /\ t.suggested_ghs = t.usd_received * t.intermediary_rate_at_time

\* A sale has just been recorded at a market rate that was no longer the
\* latest one when it was finalized.
C31_RateChangedBeforeFinalize ==
    /\ last.outcome = "Recorded"
    /\ HasRate
    /\ \E t \in Rows(customer_transactions) :
           /\ t.id = seqs.tx
           /\ t.market_rate_at_time # LatestRate
           /\ t.owner_rate_at_time # owner_rate(LatestRate)

\* The tables of the bookkeeping: rate log, intake log, ledger, transaction
\* log and usage rows.
books == <<market_rates, bulk_transfers, inventory_batches,
           customer_transactions, tx_batch_usage>>

\* C32: a request to delete a transaction or to reset the database from a
\* user whose stored role is not owner, and a request to start the
\* rate-setting, bulk-intake or sale conversation from a user with no stored
\* role, leaves the tables of the bookkeeping unchanged, and the
\* conversation is not started; so a transaction is deleted and the
\* database is reset only for an owner.
C32_RequestsNeedTheRole ==
    [][/\ (/\ last'.op \in {"delete_transaction", "reset_database"}
           /\ get_user_role(last'.user) # "owner")
          => UNCHANGED books
       /\ (/\ last'.op \in {"setmarket_start", "bulk_start", "pay_start"}
           /\ get_user_role(last'.user) = "none")
          => /\ UNCHANGED books
             /\ conv' = conv
             /\ last'.outcome = "Unauthorized"
       /\ last'.outcome \in {"deleted", "cleared"}
          => get_user_role(last'.user) = "owner"]_vars

\* An intermediary has just asked to delete a recorded transaction.
C32_IntermediaryDeleteRefused ==
    /\ last.op = "delete_transaction"
    /\ last.outcome = "owner only"
    /\ get_user_role(last.user) = "intermediary"
    /\ customer_transactions # <<>>

\* A user with no role has just asked to start a sale while the tables hold
\* a rate and a lot.
C32_NoRoleStartRefused ==
    /\ last.op = "pay_start"
    /\ last.outcome = "Unauthorized"
    /\ get_user_role(last.user) = "none"
    /\ HasRate
    /\ inventory_batches # <<>>

\* A user with no role has just asked to reset a database that holds a
\* recorded transaction.
C32_NoRoleResetRefused ==
    /\ last.op = "reset_database"
    /\ last.outcome = "owner only"
    /\ get_user_role(last.user) = "none"
    /\ customer_transactions # <<>>

\* C33: the users table changes only in an approval issued by OWNER_ID; an
\* approval gives its target one role, owner or intermediary, leaves the
\* roles of the others, and takes the target out of the pending set; a
\* rejection takes its target out of the pending set and leaves the users
\* table; an approval or rejection from another sender changes neither; and
\* a /start from a user who has a role or is pending adds no pending entry.
C33_UsersChangeByOwnerApproval ==
    [][/\ users' # users
          => /\ last'.op = "approval_callback"
             /\ last'.user = OWNER_ID
             /\ last'.outcome = "approved"
       /\ (last'.op = "approval_callback" /\ last'.user # OWNER_ID)
          => UNCHANGED <<users, pending_users>>
       /\ (last'.op = "approval_callback" /\ last'.outcome = "approved")
          => \E target \in pending_users :
                 /\ pending_users' = pending_users \ {target}
                 /\ DOMAIN users' = (DOMAIN users) \cup {target}
                 /\ users'[target] \in {"owner", "intermediary"}
                 /\ \A x \in (DOMAIN users) \ {target} : users'[x] = users[x]
       /\ (last'.op = "approval_callback" /\ last'.outcome = "rejected")
          => /\ users' = users
             /\ \E target \in pending_users :
                    pending_users' = pending_users \ {target}
       /\ (/\ last'.op = "start"
           /\ \/ last'.user \in DOMAIN users
              \/ last'.user \in pending_users)
          => pending_users' = pending_users]_vars

\* The owner has just approved user 2, who was pending, as intermediary.
C33_ApprovedAsIntermediary ==
    /\ last.op = "approval_callback"
    /\ last.user = OWNER_ID
    /\ last.outcome = "approved"
    /\ 2 \in DOMAIN users
    /\ users[2] = "intermediary"
    /\ 2 \notin pending_users

\* A sender other than OWNER_ID has just pressed a button of a pending
\* request, which is still pending.
C33_OtherSenderRefused ==
    /\ last.op = "approval_callback"
    /\ last.user # OWNER_ID
    /\ last.outcome = "owner only"
    /\ pending_users # {}

\* A pending user has just sent /start again.
C33_PendingStartsAgain ==
    /\ last.op = "start"
    /\ last.outcome = "already pending"
    /\ last.user \in pending_users

\* C34 (as claimed): a call that reaches finalize_transaction ends the sale
\* conversation whatever its outcome; cancel at the confirmation ends it
\* and leaves lots, transactions and usage rows; and text that is not a
\* number keeps the conversation in the state it was in and changes nothing.
C34_SaleConversationEnds ==
    [][/\ last'.outcome \in FinalizeOutcomes
          => conv'[last'.user].pay = END
       /\ (last'.op = "pay_confirm" /\ last'.outcome = "cancelled")
          => /\ conv'[last'.user].pay = END
             /\ UNCHANGED <<inventory_batches, customer_transactions,
                            tx_batch_usage>>
       /\ (/\ last'.op \in {"pay_usd", "pay_actual"}
           /\ last'.outcome = "Invalid number")
          => /\ conv' = conv
             /\ UNCHANGED <<dbvars, user_data>>]_vars

\* C34, on a database whose customer_transactions table has the
\* owner_profit_usd column: the statement of C34 holds.
C34_WithProfitColumn ==
    [][(FinalizeInsertColumns \subseteq tx_columns)
       => /\ last'.outcome \in FinalizeOutcomes
             => conv'[last'.user].pay = END
          /\ (last'.op = "pay_confirm" /\ last'.outcome = "cancelled")
             => /\ conv'[last'.user].pay = END
                /\ UNCHANGED <<inventory_batches, customer_transactions,
                               tx_batch_usage>>
          /\ (/\ last'.op \in {"pay_usd", "pay_actual"}
              /\ last'.outcome = "Invalid number")
             => /\ conv' = conv
                /\ UNCHANGED <<dbvars, user_data>>]_vars

\* A sale has just been recorded and its conversation has ended.
C34_RecordedAndEnded ==
    /\ last.outcome = "Recorded"
    /\ conv[last.user].pay = END

\* A sale has just been cancelled at the confirmation while the ledger holds
\* a lot.
C34_CancelledReached ==
    /\ last.op = "pay_confirm"
    /\ last.outcome = "cancelled"
    /\ conv[last.user].pay = END
    /\ inventory_batches # <<>>

\* Text that is not a number has just been sent as the amount paid, and the
\* conversation still waits for the amount.
C34_NotANumberReached ==
    /\ last.op = "pay_actual"
    /\ last.outcome = "Invalid number"
    /\ conv[last.user].pay = ACTUAL_AMOUNT

=============================================================================
